---- MODULE Spec2Model ----
(***************************************************************************)
(* Fair rent division by simplicial subdivision (src/rent.py).             *)
(*                                                                         *)
(* Numbers.  The program computes in binary floating point and stores      *)
(* every coordinate rounded to ROUNDING decimals.  The model computes in   *)
(* exact fixed point: a stored coordinate is an integer number of units    *)
(* of 10^-ROUNDING, and a raw (not yet stored) coordinate is a fraction    *)
(* nums[i]/den of that unit.  Python's round() rounds the binary double,   *)
(* so at an exact decimal tie (x.xxx5) its direction depends on the        *)
(* representation error of the operands, which fixed point does not        *)
(* carry; both directions occur.  Likewise a comparison with EPS whose     *)
(* exact operand is exactly EPS is decided in the program by               *)
(* representation error, either way.  These outcomes are an explicit       *)
(* argument `fp` of every operator that rounds or compares with EPS:       *)
(*   fp.tie   "up" or "down": the direction of a rounding tie              *)
(*   fp.sum   whether |sum - total_rent| > EPS holds at exactly EPS        *)
(*   fp.snap  whether coordinate < EPS holds at exactly EPS                *)
(*   fp.eq    whether |a - b| < EPS holds at exactly EPS                   *)
(* chosen nondeterministically, once per run (the variable mode).          *)
(*                                                                         *)
(* Exceptions.  An operator that can raise comes in two parts: ...Exc      *)
(* gives the exception raised ("none" when it returns), and the operator   *)
(* itself gives the value returned when nothing is raised.                 *)
(***************************************************************************)
EXTENDS Integers, Sequences, FiniteSets, TLC

VARIABLES
    strategies,        \* rent.py:75   housemate -> strategy
    mode,              \* how this run resolves rounding ties and EPS edges
    pc,                \* position of the program
    initial_triangle,  \* rent.py:349  the driver's current triangle
    last_bary,         \* rent.py:354
    i,                 \* rent.py:353
    exc,               \* the exception last raised ("none" if none)
    raw,               \* PointSpec: raw coordinates handed to Point(), in 1/RawDen units
    pt,                \* PointSpec: the Point constructed from raw
    other,             \* PointSpec: the second Point of findPoint
    arg,               \* PointSpec: the t of findPoint, as <<numerator, denominator>>
    res                \* PointSpec: the Point findPoint returned

vars == <<strategies, mode, pc, initial_triangle, last_bary, i, exc, raw, pt, other, arg, res>>

\* ------------------------------------------------------------ constants

\* rent.py:6   decimals kept in a stored coordinate
ROUNDING == 3
\* one unit of rent, in stored units of 10^-ROUNDING
Unit == 10 ^ ROUNDING
\* rent.py:4   EPS = 0.01, in stored units of 10^-3
EPS == 10
\* rent.py:80
total_rent == 1000
\* rent.py:369
max_iter == 1000
\* rent.py:53
housemates == <<"A", "B", "C">>
\* rent.py:56
rooms == <<1, 2, 3>>
\* rent.py:45-48  capStrategy falls off its loop: Python returns None.  None is
\* modelled by a number that is no room identifier.
None == 0

Range(s) == {s[k] : k \in DOMAIN s}
\* The element of a one-element set.  Written The({F(x) : x \in {e}}), it is
\* F(e) with e evaluated once and x bound to its value.
The(S) == CHOOSE x \in S : TRUE
FpModes == [tie : {"up", "down"}, sum : BOOLEAN, snap : BOOLEAN, eq : BOOLEAN]

\* ----------------------------------------------------------- strategies

\* rent.py:10-18  min(), then list.index(): the first position of the minimum
cheapskateStrategy(coords) ==
    LET min_cost == CHOOSE v \in Range(coords) : \A w \in Range(coords) : v <= w
        min_index == CHOOSE k \in DOMAIN coords :
                        /\ coords[k] = min_cost
                        /\ \A j \in 1..(k - 1) : coords[j] # min_cost
    IN  rooms[min_index]

\* rent.py:24-28  (coords[n-1] of the 0-based source is coords[n] here)
wantRoomNStrategy(n, coords) ==
    IF 0 \in Range(coords) /\ coords[n] # 0
    THEN cheapskateStrategy(coords)
    ELSE n

\* rent.py:42-47  prices.cap[r] is the cap of room r in rent units
capStrategy(prices, coords) ==
    IF 0 \in Range(coords) /\ coords[prices.favorite] # 0
    THEN cheapskateStrategy(coords)
    ELSE LET ok == {k \in DOMAIN prices.order :
                       coords[prices.order[k]] < prices.cap[prices.order[k]] * Unit}
         IN  IF ok = {} THEN None
             ELSE prices.order[CHOOSE k \in ok : \A j \in ok : k <= j]

\* rent.py:74
capA == [cap |-> <<500, 500, 0>>, favorite |-> 1, order |-> <<1, 2, 3>>]

\* The deterministic strategies the source offers (rent.py:64-77); the room of
\* makeRoomNStrategy is any room (rent.py:21 rejects the others).
cheapskate == [kind |-> "cheapskate", n |-> 0, prices |-> capA]
makeRoomNStrategy(n) == [kind |-> "roomN", n |-> n, prices |-> capA]
makeCapStrategy(prices) == [kind |-> "cap", n |-> 0, prices |-> prices]
StrategyChoices ==
    {cheapskate, makeCapStrategy(capA)} \cup {makeRoomNStrategy(n) : n \in Range(rooms)}

\* rent.py:75-77  the configuration the source ships
ShippedStrategies ==
    [h \in Range(housemates) |->
        IF h = "A" THEN makeCapStrategy(capA) ELSE cheapskate]

\* a strategy applied to a price vector
Decide(s, coords) ==
    CASE s.kind = "cheapskate" -> cheapskateStrategy(coords)
      [] s.kind = "roomN"      -> wantRoomNStrategy(s.n, coords)
      [] s.kind = "cap"        -> capStrategy(s.prices, coords)

\* rent.py:127-128
query(coords, h) == Decide(strategies[h], coords)

\* ---------------------------------------------------------------- Point

Sum(s) == The({LET RECURSIVE Go(_)
                   Go(k) == IF k = 0 THEN 0 ELSE v[k] + Go(k - 1)
               IN  Go(Len(v)) :
                  v \in {s}})
Abs(x) == The({IF v < 0 THEN -v ELSE v : v \in {x}})

\* rent.py:110  round(x, ROUNDING) of x = n/den units, ties as fp.tie says
round(n, den, fp) ==
    LET q == n \div den
        r == n % den
    IN  IF 2 * r < den THEN q
        ELSE IF 2 * r > den THEN q + 1
        ELSE IF fp.tie = "up" THEN q + 1 ELSE q

\* rent.py:94-107  the checks of Point.__init__, in order, on the raw coordinates
PointExc(nums, den, fp) ==
    The({IF Len(n) # Len(rooms) THEN "Dimension"
         ELSE IF \/ dev > den * EPS
                 \/ dev = den * EPS /\ fp.sum
              THEN "SumMismatch"
         ELSE IF \E k \in DOMAIN n : n[k] < 0 THEN "Negative"
         ELSE "none" :
            n \in {nums}, dev \in {Abs(Sum(nums) - den * total_rent * Unit)}})

\* rent.py:110  zero-snap below EPS, round the rest
Normalise(nums, den, fp) ==
    The({LET RECURSIVE Go(_)
             Go(k) == IF k = 0 THEN <<>>
                      ELSE Append(Go(k - 1),
                             IF n[k] < den * EPS \/ (n[k] = den * EPS /\ fp.snap)
                             THEN 0
                             ELSE round(n[k], den, fp))
         IN  Go(Len(n)) :
            n \in {nums}})

\* rent.py:110-116  the Point that __init__ leaves when no check fails
Point(nums, den, fp) ==
    The({[coords    |-> coords,
          decisions |-> [h \in Range(housemates) |-> query(coords, h)]] :
            coords \in {Normalise(nums, den, fp)}})

\* rent.py:124  the raw coordinates (1-t)*self[i] + t*pt2[i] for t = tn/td
findPointNums(self, pt2, tn, td) ==
    LET RECURSIVE Go(_)
        Go(k) == IF k = 0 THEN <<>>
                 ELSE Append(Go(k - 1), (td - tn) * self.coords[k] + tn * pt2.coords[k])
    IN  Go(Len(self.coords))

\* rent.py:122-124
findPointExc(self, pt2, tn, td, fp) == PointExc(findPointNums(self, pt2, tn, td), td, fp)
findPoint(self, pt2, tn, td, fp) == Point(findPointNums(self, pt2, tn, td), td, fp)

\* rent.py:130-132
PointEq(self, o, fp) ==
    \A k \in DOMAIN self.coords :
        \/ Abs(self.coords[k] - o.coords[k]) < EPS
        \/ Abs(self.coords[k] - o.coords[k]) = EPS /\ fp.eq

\* ------------------------------------------------------------- Triangle

\* rent.py:168
DefaultLabels ==
    << <<"A", "B", "C">>, <<"B", "A", "C">>, <<"C", "A", "B">>,
       <<"C", "B", "A">>, <<"B", "C", "A">>, <<"A", "C", "B">> >>

\* rent.py:187-188  mid_points[k] of the source (0-based) is MidPoint(c, k+1)
MidPointExc(c, k, fp) == findPointExc(c[k], c[(k % Len(c)) + 1], 1, 2, fp)
MidPoint(c, k, fp) == findPoint(c[k], c[(k % Len(c)) + 1], 1, 2, fp)

First(S) == CHOOSE k \in S : \A j \in S : k <= j

\* as initPointsFromCorners, with the barycentre taken at t = 1/2
initPointsFromCornersHalfway(c, fp) ==
    The({[exc           |-> IF bad # {} THEN MidPointExc(c, First(bad), fp)
                            ELSE findPointExc(c[1], m[2], 1, 2, fp),
          mid_points    |-> m,
          barycentre_pt |-> findPoint(c[1], m[2], 1, 2, fp)] :
            m   \in {<<MidPoint(c, 1, fp), MidPoint(c, 2, fp), MidPoint(c, 3, fp)>>},
            bad \in {{k \in DOMAIN c : MidPointExc(c, k, fp) # "none"}}})

\* rent.py:184-190  the midpoints are built in order, then the barycentre
\* c[0].findPoint(mid_points[1], 2/3); exc is the first exception raised
initPointsFromCorners(c, fp) ==
    The({[exc           |-> IF bad # {} THEN MidPointExc(c, First(bad), fp)
                            ELSE findPointExc(c[1], m[2], 2, 3, fp),
          mid_points    |-> m,
          barycentre_pt |-> findPoint(c[1], m[2], 2, 3, fp)] :
            m   \in {<<MidPoint(c, 1, fp), MidPoint(c, 2, fp), MidPoint(c, 3, fp)>>},
            bad \in {{k \in DOMAIN c : MidPointExc(c, k, fp) # "none"}}})

\* rent.py:147-171 with initInner=False: exc is the exception the constructor
\* raises, tri the Triangle it leaves otherwise; choices is unset until
\* initChoicesFromCornerLabel runs (the empty sequence here)
Triangle(c, name, fp) ==
    The({[exc |-> p.exc,
          tri |-> [corners         |-> cs,
                   mid_points      |-> p.mid_points,
                   barycentre_pt   |-> p.barycentre_pt,
                   inner_triangles |-> <<>>,
                   corner_label    |-> <<"A", "A", "A">>,
                   good            |-> FALSE,
                   name            |-> name,
                   labels          |-> DefaultLabels,
                   choices         |-> <<>>]] :
            cs \in {c}, p \in {initPointsFromCorners(c, fp)}})

\* rent.py:244-258
initChoicesFromCornerLabel(t) ==
    LET RECURSIVE Go(_)
        Go(k) == IF k = 0 THEN <<>>
                 ELSE Append(Go(k - 1), t.corners[k].decisions[t.corner_label[k]])
    IN  The({[t EXCEPT !.choices = choices,
                       !.good = \A k \in DOMAIN rooms : rooms[k] \in chosen] :
                choices \in {Go(Len(t.corner_label))},
                chosen  \in {Range(Go(Len(t.corner_label)))}})

\* as generateLabelsFromCornerLabelExc, with all() for any()
generateLabelsFromCornerLabelExcAll(t) ==
    IF \A k \in DOMAIN housemates : housemates[k] \notin Range(t.corner_label)
    THEN "NonDistinct"
    ELSE "none"

\* rent.py:302-304
generateLabelsFromCornerLabelExc(t) ==
    IF \E k \in DOMAIN housemates : housemates[k] \notin Range(t.corner_label)
    THEN "NonDistinct"
    ELSE "none"

\* rent.py:313  the first housemate that is neither x nor y
l5(x, y) ==
    housemates[CHOOSE k \in DOMAIN housemates :
                  /\ housemates[k] \notin {x, y}
                  /\ \A j \in 1..(k - 1) : housemates[j] \in {x, y}]

\* as generateLabelsFromCornerLabel, with l3 and l4 exchanged
generateLabelsFromCornerLabelMixed(t) ==
    The({LET l3 == l1
             l4 == l2
             l6 == l0
         IN  [t EXCEPT !.labels =
                 << <<l0, l3, l5(l0, l3)>>,
                    <<l3, l1, l5(l3, l1)>>,
                    <<l5(l1, l6), l1, l6>>,
                    <<l5(l6, l2), l6, l2>>,
                    <<l4, l5(l4, l2), l2>>,
                    <<l0, l5(l0, l4), l4>> >>] :
            l0 \in {t.corner_label[1]},
            l1 \in {t.corner_label[2]},
            l2 \in {t.corner_label[3]}})

\* rent.py:306-320
generateLabelsFromCornerLabel(t) ==
    The({LET l3 == l2
             l4 == l1
             l6 == l0
         IN  [t EXCEPT !.labels =
                 << <<l0, l3, l5(l0, l3)>>,
                    <<l3, l1, l5(l3, l1)>>,
                    <<l5(l1, l6), l1, l6>>,
                    <<l5(l6, l2), l6, l2>>,
                    <<l4, l5(l4, l2), l2>>,
                    <<l0, l5(l0, l4), l4>> >>] :
            l0 \in {t.corner_label[1]},
            l1 \in {t.corner_label[2]},
            l2 \in {t.corner_label[3]}})

\* as InnerCorners, with the first two corners of t4 exchanged
InnerCornersSwapped(t) ==
    LET c == t.corners
        m == t.mid_points
        b == t.barycentre_pt
    IN  << <<c[1], m[1], b>>,
           <<m[1], c[2], b>>,
           <<b, c[2], m[2]>>,
           <<b, m[2], c[3]>>,
           <<b, m[3], c[3]>>,
           <<c[1], b, m[3]>> >>

\* rent.py:261-269  the corners of t0..t5
InnerCorners(t) ==
    LET c == t.corners
        m == t.mid_points
        b == t.barycentre_pt
    IN  << <<c[1], m[1], b>>,
           <<m[1], c[2], b>>,
           <<b, c[2], m[2]>>,
           <<b, m[2], c[3]>>,
           <<m[3], b, c[3]>>,
           <<c[1], b, m[3]>> >>

\* as LabelInner, without the propagation of 279-281
LabelInnerNoPropagation(t, l) ==
    The({u : u \in {initChoicesFromCornerLabel([t EXCEPT !.corner_label = l])}})

\* rent.py:275-281  one pass of the labelling loop over child t with label l
LabelInner(t, l) ==
    The({IF u.good /\ generateLabelsFromCornerLabelExc(u) = "none"
         THEN generateLabelsFromCornerLabel(u)
         ELSE u :
            u \in {initChoicesFromCornerLabel([t EXCEPT !.corner_label = l])}})
LabelInnerExc(t, l) ==
    The({IF u.good THEN generateLabelsFromCornerLabelExc(u) ELSE "none" :
            u \in {initChoicesFromCornerLabel([t EXCEPT !.corner_label = l])}})

\* rent.py:260-281  exc is the exception initInnerTriangles raises: that of the
\* first Triangle() that fails (264-269), else that of the first labelling that
\* fails; tri is the triangle as the call leaves it.  When a Triangle() raises,
\* inner_triangles was not yet assigned (271); when the labelling of child k
\* raises, the children before k are labelled, child k has its label and
\* choices, and the children after k are as constructed.
initInnerTriangles(t, fp) ==
    LET T(c, k) == Triangle(c, Append(t.name, k - 1), fp)
        New(ic) == <<T(ic[1], 1), T(ic[2], 2), T(ic[3], 3),
                     T(ic[4], 4), T(ic[5], 5), T(ic[6], 6)>>
        L(new, badL, k) == IF badL = {} \/ k <= First(badL)
                           THEN LabelInner(new[k].tri, t.labels[k])
                           ELSE new[k].tri
        Labelled(new, badT, badL) ==
            IF badT # {} THEN [exc |-> new[First(badT)].exc, tri |-> t]
            ELSE [exc |-> IF badL # {}
                          THEN LabelInnerExc(new[First(badL)].tri,
                                             t.labels[First(badL)])
                          ELSE "none",
                  tri |-> [t EXCEPT !.inner_triangles =
                            <<L(new, badL, 1), L(new, badL, 2), L(new, badL, 3),
                              L(new, badL, 4), L(new, badL, 5), L(new, badL, 6)>>]]
    IN  The({The({Labelled(new, {k \in DOMAIN new : new[k].exc # "none"}, badL) :
                    badL \in {{k \in DOMAIN new :
                                 LabelInnerExc(new[k].tri, t.labels[k]) # "none"}}}) :
                new \in The({{New(ic)} : ic \in {InnerCorners(t)}})})

\* rent.py:323-337  the positions of the good inner triangles; both getters
\* take the first and raise IndexError when there is none
GoodInner(t) == {k \in DOMAIN t.inner_triangles : t.inner_triangles[k].good}
getGoodInnerTriangleExc(t) == IF GoodInner(t) = {} THEN "IndexError" ELSE "none"
getGoodInnerTriangle(t) == t.inner_triangles[First(GoodInner(t))]

\* --------------------------------------------------------------- driver

NoPoint == [coords |-> <<>>, decisions |-> <<>>]
NoTriangle ==
    [corners |-> <<>>, mid_points |-> <<>>, barycentre_pt |-> NoPoint,
     inner_triangles |-> <<>>, corner_label |-> <<>>, good |-> FALSE,
     name |-> <<>>, labels |-> <<>>, choices |-> <<>>]

Terminal == {"Converged", "Exhausted", "Stuck", "Crashed"}

\* rent.py:349-351  the raw coordinates of the three extreme price vectors
ExtremeNums ==
    << <<0, 0, total_rent * Unit>>,
       <<0, total_rent * Unit, 0>>,
       <<total_rent * Unit, 0, 0>> >>

Init ==
    /\ strategies \in [Range(housemates) -> StrategyChoices]
    /\ mode \in FpModes
    /\ pc = "Initial"
    /\ initial_triangle = NoTriangle
    /\ last_bary = NoPoint
    /\ i = 0
    /\ exc = "none"
    /\ raw = <<>>
    /\ pt = NoPoint
    /\ other = NoPoint
    /\ arg = <<>>
    /\ res = NoPoint

\* rent.py:349-360  nothing here is inside the loop's try: an exception ends
\* the program ("Crashed").  The try of 356-360 only prints.
Start ==
    /\ pc = "Initial"
    /\ \E bad \in {{k \in DOMAIN ExtremeNums : PointExc(ExtremeNums[k], 1, mode) # "none"}} :
       \E c \in {<<Point(ExtremeNums[1], 1, mode),
                    Point(ExtremeNums[2], 1, mode),
                    Point(ExtremeNums[3], 1, mode)>>} :
       \E root \in {Triangle(c, <<>>, mode)} :
       \E sub \in {initInnerTriangles(root.tri, mode)} :
       \E e \in {IF bad # {} THEN PointExc(ExtremeNums[First(bad)], 1, mode)
                 ELSE IF root.exc # "none" THEN root.exc
                 ELSE sub.exc} :
              IF e # "none"
              THEN /\ pc' = "Crashed"
                   /\ exc' = e
                   /\ UNCHANGED <<initial_triangle, last_bary, i>>
              ELSE /\ initial_triangle' = sub.tri
                   /\ i' = 1
                   /\ last_bary' = root.tri.barycentre_pt
                   /\ pc' = "Subdividing"
                   /\ exc' = "none"
    /\ UNCHANGED <<strategies, mode, raw, pt, other, arg, res>>

\* as Handler, were the clause `except IndexError`
HandlerIndexErrorOnly(e) == IF e = "IndexError" THEN "Stuck" ELSE "Crashed"

\* rent.py:387-390  `except Exception` catches every exception of the loop body
Handler(e) == "Stuck"

\* as LoopEnd, were the barycentres compared exactly instead of with __eq__
LoopEndExact(new_bary, last, n, fp) ==
    IF new_bary.coords = last.coords THEN "Converged"
    ELSE IF n > max_iter THEN "Exhausted"
    ELSE "Subdividing"

\* rent.py:384  the loop ends when either disjunct holds; the outcome is named
\* after the first that does
LoopEnd(new_bary, last, n, fp) ==
    IF PointEq(new_bary, last, fp) THEN "Converged"
    ELSE IF n > max_iter THEN "Exhausted"
    ELSE "Subdividing"

\* rent.py:370-390  one pass of the loop
DriverRound ==
    /\ pc = "Subdividing"
    /\ IF getGoodInnerTriangleExc(initial_triangle) # "none"
       THEN \* 373 raises: nothing was assigned
            /\ exc' = getGoodInnerTriangleExc(initial_triangle)
            /\ pc' = Handler(exc')
            /\ UNCHANGED <<initial_triangle, last_bary, i>>
       ELSE \E g \in {getGoodInnerTriangle(initial_triangle)} :
            \E r \in {initInnerTriangles(g, mode)} :
               /\ initial_triangle' = r.tri
               /\ IF r.exc # "none"
                  THEN \* 374 raises: the child is current already
                       /\ exc' = r.exc
                       /\ pc' = Handler(r.exc)
                       /\ UNCHANGED <<last_bary, i>>
                  ELSE IF getGoodInnerTriangleExc(r.tri) # "none"
                  THEN \* 382 raises, before the counter and the comparison
                       /\ exc' = getGoodInnerTriangleExc(r.tri)
                       /\ pc' = Handler(exc')
                       /\ UNCHANGED <<last_bary, i>>
                  ELSE /\ exc' = "none"
                       /\ i' = i + 1
                       /\ pc' = LoopEnd(r.tri.barycentre_pt, last_bary, i + 1, mode)
                       /\ last_bary' = IF pc' = "Subdividing"
                                       THEN r.tri.barycentre_pt ELSE last_bary
    /\ UNCHANGED <<strategies, mode, raw, pt, other, arg, res>>

Next == Start \/ DriverRound

Spec == Init /\ [][Next]_vars

\* The loop is sequential code: a pass that can run does run.
FairSpec == Spec /\ WF_vars(Next)

\* ---------------------------------------------------- Point, on its own

\* Raw coordinates are given in 1/RawDen of a stored unit.
RawDen == 2
\* How far around 0, EPS, the caps of capA and the sum tolerance the raw inputs range.
Margin == 1

Around(x) == (x - Margin)..(x + Margin)
RawCoords ==
    (0..Margin) \cup Around(RawDen * EPS) \cup Around(RawDen * capA.cap[1] * Unit)
RawDevs == Around(-RawDen * EPS) \cup Around(0) \cup Around(RawDen * EPS)
\* two coordinates from RawCoords, the third such that the sum misses
\* total_rent by a deviation from RawDevs
RawInputs ==
    {<<x, y, RawDen * total_rent * Unit - x - y + d>> :
        x \in RawCoords, y \in RawCoords, d \in RawDevs}

PointInit ==
    /\ strategies = ShippedStrategies
    /\ mode \in FpModes
    /\ pc = "Raw"
    /\ raw \in RawInputs
    /\ pt = NoPoint
    /\ other = NoPoint
    /\ arg = <<>>
    /\ res = NoPoint
    /\ exc = "none"
    /\ initial_triangle = NoTriangle
    /\ last_bary = NoPoint
    /\ i = 0

\* rent.py:92-116  pt = Point(*raw)
Construct ==
    /\ pc = "Raw"
    /\ exc' = PointExc(raw, RawDen, mode)
    /\ IF exc' = "none"
       THEN pt' = Point(raw, RawDen, mode) /\ pc' = "Constructed"
       ELSE pt' = pt /\ pc' = "Rejected"
    /\ UNCHANGED <<strategies, mode, initial_triangle, last_bary, i, raw, other, arg, res>>

\* rent.py:122-124  res = pt.findPoint(other, 0) or res = other.findPoint(pt, 1),
\* other being one of the extreme price vectors of rent.py:349-351
Interpolate ==
    /\ pc = "Constructed"
    /\ \E k \in DOMAIN ExtremeNums, t \in {<<0, 1>>, <<1, 1>>} :
       \E o \in {Point(ExtremeNums[k], 1, mode)} :
       \E self \in {IF t[1] = 0 THEN pt ELSE o}, pt2 \in {IF t[1] = 0 THEN o ELSE pt} :
          /\ other' = o
          /\ arg' = t
          /\ exc' = findPointExc(self, pt2, t[1], t[2], mode)
          /\ res' = IF exc' = "none" THEN findPoint(self, pt2, t[1], t[2], mode) ELSE res
          /\ pc' = "Interpolated"
    /\ UNCHANGED <<strategies, mode, initial_triangle, last_bary, i, raw, pt>>

PointNext == Construct \/ Interpolate

PointSpec == PointInit /\ [][PointNext]_vars

\* ------------------------------------------- label propagation, on its own

\* every 3-character corner_label over the housemates
CornerLabels == [1..3 -> Range(housemates)]

\* The triangle under test: the outer simplex of rent.py:349-351 or one of its
\* six inner triangles, as constructed, with corner_label assigned as at
\* rent.py:277.
LabelInit ==
    /\ strategies = ShippedStrategies
    /\ mode \in FpModes
    /\ pc = "Labelled"
    /\ \E root \in {Triangle([k \in DOMAIN ExtremeNums |->
                                Point(ExtremeNums[k], 1, mode)], <<>>, mode).tri} :
       \E t \in {root} \cup {Triangle(InnerCorners(root)[k], <<k - 1>>, mode).tri :
                                k \in 1..6} :
       \E l \in CornerLabels :
          initial_triangle = [t EXCEPT !.corner_label = <<l[1], l[2], l[3]>>]
    /\ raw = <<>>
    /\ pt = NoPoint
    /\ other = NoPoint
    /\ arg = <<>>
    /\ res = NoPoint
    /\ exc = "none"
    /\ last_bary = NoPoint
    /\ i = 0

\* rent.py:301-320  initial_triangle.generateLabelsFromCornerLabel()
GenerateLabels ==
    /\ pc = "Labelled"
    /\ exc' = generateLabelsFromCornerLabelExc(initial_triangle)
    /\ initial_triangle' = IF exc' = "none"
                           THEN generateLabelsFromCornerLabel(initial_triangle)
                           ELSE initial_triangle
    /\ pc' = "Generated"
    /\ UNCHANGED <<strategies, mode, last_bary, i, raw, pt, other, arg, res>>

LabelSpec == LabelInit /\ [][GenerateLabels]_vars

\* ================================================================ claims

Outcomes == {"Converged", "Exhausted", "Stuck"}
IsPermutation(l) == Len(l) = Len(housemates) /\ Range(l) = Range(housemates)
\* the triangles the state holds: the current one and its inner triangles
Held == {initial_triangle} \cup Range(initial_triangle.inner_triangles)

\* C1: under FairSpec every run of the driver, whatever the strategies, ends in
\* Converged, Exhausted or Stuck; a pass of the loop starts only while the
\* counter is at most max_iter (so at most max_iter passes run); and no run
\* ends by an exception that nothing catches.
C1_DriverTerminates ==
    /\ [](pc = "Subdividing" => i <= max_iter)
    /\ [](i <= max_iter + 1)
    /\ [](pc # "Crashed")
    /\ <>(pc \in Outcomes)
\* a run that made several passes and ended
C1_Witness == pc \in Outcomes /\ Len(initial_triangle.name) > 3

IsMidpoint(m, a, b) ==
    \A k \in DOMAIN m.coords :
        \/ Abs(2 * m.coords[k] - (a.coords[k] + b.coords[k])) <= 1
        \/ m.coords[k] = 0 /\ a.coords[k] + b.coords[k] <= 2 * EPS
\* each coordinate of p is within n/3 units of the mean of the corners c
NearMean(p, c, n) ==
    \A k \in DOMAIN p.coords :
        Abs(3 * p.coords[k] - (c[1].coords[k] + c[2].coords[k] + c[3].coords[k])) <= n

\* C3: a subdivided triangle has exactly six inner triangles, with corners
\* (C0,M0,B), (M0,C1,B), (B,C1,M1), (B,M1,C2), (M2,B,C2), (C0,B,M2) in this
\* order, M0, M1, M2 being the midpoints of C0-C1, C1-C2, C2-C0 and B the
\* barycentre; no inner corner is any other point.
C3_SixInnerTriangles ==
    initial_triangle.inner_triangles # <<>> =>
        LET C == initial_triangle.corners
            M == initial_triangle.mid_points
            B == initial_triangle.barycentre_pt
            T == initial_triangle.inner_triangles
        IN  /\ Len(T) = 6
            /\ IsMidpoint(M[1], C[1], C[2])
            /\ IsMidpoint(M[2], C[2], C[3])
            /\ IsMidpoint(M[3], C[3], C[1])
            /\ NearMean(B, C, 6 * EPS)
            /\ T[1].corners = <<C[1], M[1], B>>
            /\ T[2].corners = <<M[1], C[2], B>>
            /\ T[3].corners = <<B, C[2], M[2]>>
            /\ T[4].corners = <<B, M[2], C[3]>>
            /\ T[5].corners = <<M[3], B, C[3]>>
            /\ T[6].corners = <<C[1], B, M[3]>>
            /\ \A k \in DOMAIN T : Range(T[k].corners) \subseteq Range(C) \cup Range(M) \cup {B}
\* a triangle below the outer simplex has been subdivided
C3_Witness ==
    /\ initial_triangle.name # <<>>
    /\ Len(initial_triangle.inner_triangles) = 6
    /\ Cardinality(Range(initial_triangle.corners)) = 3

\* third(x, y): the housemate that is neither x nor y
third(x, y) == CHOOSE z \in Range(housemates) : z \notin {x, y}
PropagatedLabels(l) ==
    << <<l[1], l[3], third(l[1], l[3])>>,
       <<l[3], l[2], third(l[3], l[2])>>,
       <<third(l[2], l[1]), l[2], l[1]>>,
       <<third(l[1], l[3]), l[1], l[3]>>,
       <<l[2], third(l[2], l[3]), l[3]>>,
       <<l[1], third(l[1], l[2]), l[2]>> >>

\* C4: for a corner_label (l0,l1,l2) that is a permutation of the housemates,
\* generateLabelsFromCornerLabel raises nothing and leaves the labels
\* (l0,l2,third(l0,l2)), (l2,l1,third(l2,l1)), (third(l1,l0),l1,l0),
\* (third(l0,l2),l0,l2), (l1,third(l1,l2),l2), (l0,third(l0,l1),l1).
C4_PropagationTable ==
    (pc = "Generated" /\ IsPermutation(initial_triangle.corner_label)) =>
        /\ exc = "none"
        /\ initial_triangle.labels = PropagatedLabels(initial_triangle.corner_label)
\* the labels of CAB have been propagated
C4_Witness ==
    /\ pc = "Generated"
    /\ initial_triangle.corner_label = <<"C", "A", "B">>
    /\ initial_triangle.labels # DefaultLabels

\* C5: for a corner_label with fewer than three distinct housemates,
\* generateLabelsFromCornerLabel raises the non-distinct-label error and
\* leaves the triangle, its labels included, as it was.
C5_NonDistinctRejected ==
    [][(pc = "Labelled" /\ Cardinality(Range(initial_triangle.corner_label)) < 3)
       => (exc' = "NonDistinct" /\ initial_triangle'.labels = initial_triangle.labels
           /\ initial_triangle' = initial_triangle)]_vars
\* the label AAB has been rejected
C5_Witness ==
    /\ pc = "Generated"
    /\ exc = "NonDistinct"
    /\ initial_triangle.corner_label = <<"A", "A", "B">>

\* every comparison that lands exactly on EPS is resolved in favour of the
\* claims about Point
EdgesInFavour == ~mode.sum /\ ~mode.snap /\ mode.eq

\* C6 (as claimed): raw coordinates that are all non-negative and sum to
\* total_rent within EPS are accepted by Point(), and the stored coordinates
\* sum to total_rent within EPS + R * 10^-ROUNDING (R stored units).
C6_StoredSumWithinTolerance ==
    (/\ pc \in {"Constructed", "Rejected"}
     /\ EdgesInFavour
     /\ \A k \in DOMAIN raw : raw[k] >= 0
     /\ Abs(Sum(raw) - RawDen * total_rent * Unit) <= RawDen * EPS)
    => /\ exc = "none"
       /\ Abs(Sum(pt.coords) - total_rent * Unit) <= EPS + Len(rooms)

\* C7 (as claimed): for constructed points a (pt) and b (other),
\* a.findPoint(b, 0) and b.findPoint(a, 1) return a Point equal to a under
\* __eq__; neither call raises.
C7_InterpolateEndpoints ==
    (pc = "Interpolated" /\ EdgesInFavour) => (exc = "none" /\ PointEq(res, pt, mode))

\* C8 (as claimed): capStrategy never returns an absent value: every decision
\* stored in a constructed Point is a room.
C8_DecisionsAreRooms ==
    pc = "Constructed" => \A h \in Range(housemates) : pt.decisions[h] \in Range(rooms)

\* C9 (as claimed): the barycentre of a triangle is not the arithmetic mean of
\* its corners: some coordinate differs from the mean by more than the
\* rounding of a stored coordinate.
C9_BarycentreIsBiased ==
    pc \in {"Subdividing"} \cup Outcomes =>
        \A t \in Held : ~NearMean(t.barycentre_pt, t.corners, 3)
\* C9 (amended): the barycentre of every triangle is the arithmetic mean of its
\* corners up to the normalisation of stored points: each coordinate is within
\* 2 * EPS of (C0 + C1 + C2) / 3.
C9_BarycentreIsMean ==
    pc \in {"Subdividing"} \cup Outcomes =>
        \A t \in Held : NearMean(t.barycentre_pt, t.corners, 6 * EPS)
\* a triangle deep in the subdivision, with three different corners
C9_Witness ==
    /\ Len(initial_triangle.name) > 3
    /\ Cardinality(Range(initial_triangle.corners)) = 3
    /\ Len(initial_triangle.inner_triangles) = 6

\* C10: every triangle the driver has made current (every one but the outer
\* simplex) is good, its choices being the decisions of the housemates its
\* corner_label names and containing every room; its corner_label is a
\* permutation of the housemates; its labels are those propagated from its
\* corner_label, not the default ones, and its inner triangles carry them; and
\* the non-distinct-label error is never raised.
C10_CurrentIsGoodAndPropagated ==
    /\ exc # "NonDistinct"
    /\ initial_triangle.name # <<>> =>
        LET t == initial_triangle
        IN  /\ t.good
            /\ IsPermutation(t.corner_label)
            /\ t.choices = [k \in 1..3 |-> t.corners[k].decisions[t.corner_label[k]]]
            /\ Range(rooms) \subseteq Range(t.choices)
            /\ t.labels = PropagatedLabels(t.corner_label)
            /\ t.labels # DefaultLabels
            /\ \A k \in DOMAIN t.inner_triangles :
                  t.inner_triangles[k].corner_label = t.labels[k]
\* a triangle below the outer simplex is current and subdivided
C10_Witness ==
    /\ Len(initial_triangle.name) > 1
    /\ Len(initial_triangle.inner_triangles) = 6
    /\ initial_triangle.good

====
